---------------------------- MODULE Spec2Model ----------------------------
(***************************************************************************)
(* Model of nats/js/errors.py: the JetStream error taxonomy, the two       *)
(* classify-and-raise entry points APIError.from_msg / APIError.from_error *)
(* and the string renderings of the error values.                          *)
(*                                                                         *)
(* Python values are modelled as follows.                                  *)
(*   Optional[T]   None is <<>>, a present value v is <<v>>.               *)
(*   str status    a header status is a sequence of decimal digits, so     *)
(*                 that int() and the textual comparison against the       *)
(*                 status-code enum are different operations.              *)
(*   dict          a function whose DOMAIN is the set of keys present.     *)
(*   exception     [cls |-> class name, attrs |-> instance attributes].    *)
(***************************************************************************)
EXTENDS Integers, Sequences, FiniteSets, TLC

VARIABLES
    pc,        \* "idle": no error in flight; "raised": a call has ended
    op,        \* the operation that ended last
    msg,       \* the Msg handed to from_msg (Optional)
    err,       \* the mapping handed to from_error (Optional)
    raised,    \* the exceptions that left the call, in order
    reads,     \* the header entries the call subscripted
    rendered   \* the results of str() on the error in flight, in order

vars == <<pc, op, msg, err, raised, reads, rendered>>

---------------------------------------------------------------------------
(* Bounds of the model. *)

\* longest status header text, in digits
MaxStatusLen == 3
\* largest sequence number handed to ConsumerSequenceMismatchError
MaxSeq == 10
\* how many times one error value is rendered
MaxRenders == 2

---------------------------------------------------------------------------
(* Optional values. *)

None == <<>>

Some(v) == <<v>>

---------------------------------------------------------------------------
(* The class table: every class statement of the module, with its bases   *)
(* in the order written.  nats.errors.Error and nats.errors.TimeoutError  *)
(* are defined outside the module and appear as roots.                    *)

KeyDeletedError_bases_noNotFound == <<"KeyValueError">>

KeyDeletedError_bases == <<"KeyValueError", "NotFoundError">>

NoKeysError_bases_noKeyValue == <<"APIError">>

NoKeysError_bases == <<"KeyValueError">>

Bases ==
    [ Error                         |-> <<"nats.errors.Error">>,
      APIError                      |-> <<"Error">>,
      ServiceUnavailableError       |-> <<"APIError">>,
      ServerError                   |-> <<"APIError">>,
      NotFoundError                 |-> <<"APIError">>,
      BadRequestError               |-> <<"APIError">>,
      NoStreamResponseError         |-> <<"Error">>,
      TooManyStalledMsgsError       |-> <<"Error">>,
      FetchTimeoutError             |-> <<"nats.errors.TimeoutError">>,
      ConsumerSequenceMismatchError |-> <<"Error">>,
      BucketNotFoundError           |-> <<"NotFoundError">>,
      BadBucketError                |-> <<"APIError">>,
      KeyValueError                 |-> <<"APIError">>,
      KeyDeletedError               |-> KeyDeletedError_bases,
      KeyNotFoundError              |-> <<"KeyValueError", "NotFoundError">>,
      KeyWrongLastSequenceError     |-> <<"KeyValueError", "BadRequestError">>,
      NoKeysError                   |-> NoKeysError_bases,
      KeyHistoryTooLargeError       |-> <<"KeyValueError">>,
      InvalidBucketNameError        |-> <<"Error">>,
      InvalidObjectNameError        |-> <<"Error">>,
      BadObjectMetaError            |-> <<"Error">>,
      LinkIsABucketError            |-> <<"Error">>,
      DigestMismatchError           |-> <<"Error">>,
      ObjectNotFoundError           |-> <<"NotFoundError">>,
      ObjectDeletedError            |-> <<"NotFoundError">>,
      ObjectAlreadyExists           |-> <<"Error">> ]

Classes == DOMAIN Bases

\* issubclass(c, b): b is c or is reached from c through the bases
RECURSIVE issubclass(_, _)
issubclass(c, b) ==
    \/ c = b
    \/ /\ c \in Classes
       /\ \E i \in 1..Len(Bases[c]) : issubclass(Bases[c][i], b)

\* isinstance(e, b), the check behind "except b:"
isinstance(e, b) == issubclass(e.cls, b)

---------------------------------------------------------------------------
(* Constructors.  Every parameter is an Optional value; a parameter the   *)
(* caller leaves out takes the default of the signature.                  *)

\* Error.__init__(description=None)
Error__init__(cls, description) ==
    [cls |-> cls, attrs |-> [description |-> description]]

\* the defaults of APIError.__init__'s five parameters
APIError_defaults_zeroed ==
    [code |-> None, description |-> Some(""), err_code |-> Some(0),
     stream |-> Some(""), seq |-> Some(0)]

APIError_defaults ==
    [code |-> None, description |-> None, err_code |-> None,
     stream |-> None, seq |-> None]

\* APIError.__init__(code, description, err_code, stream, seq)
APIError__init__(cls, code, description, err_code, stream, seq) ==
    [cls |-> cls,
     attrs |-> [code |-> code, err_code |-> err_code,
                description |-> description, stream |-> stream, seq |-> seq]]

\* the argument bound to parameter k by a call  cls(**kwargs)
KwArg(kwargs, k) ==
    IF k \in DOMAIN kwargs THEN Some(kwargs[k]) ELSE APIError_defaults[k]

\* cls(**kwargs) for a class whose constructor is APIError.__init__;
\* "raise cls" with no call is cls() and is the case kwargs = <<>>
APIError_call(cls, kwargs) ==
    APIError__init__(cls, KwArg(kwargs, "code"), KwArg(kwargs, "description"),
                     KwArg(kwargs, "err_code"), KwArg(kwargs, "stream"),
                     KwArg(kwargs, "seq"))

\* ConsumerSequenceMismatchError.__init__
ConsumerSequenceMismatchError__init__(stream_resume_sequence, consumer_sequence, last_consumer_sequence) ==
    [cls |-> "ConsumerSequenceMismatchError",
     attrs |-> [stream_resume_sequence |-> stream_resume_sequence,
                consumer_sequence |-> consumer_sequence,
                last_consumer_sequence |-> last_consumer_sequence]]

\* KeyDeletedError.__init__(entry=None, op=None)
KeyDeletedError__init__(entry, kvop) ==
    [cls |-> "KeyDeletedError", attrs |-> [entry |-> entry, op |-> kvop]]

\* KeyNotFoundError.__init__(entry=None, op=None, message=None)
KeyNotFoundError__init__(entry, kvop, message) ==
    [cls |-> "KeyNotFoundError",
     attrs |-> [entry |-> entry, op |-> kvop, message |-> message]]

\* KeyWrongLastSequenceError.__init__(description=None)
KeyWrongLastSequenceError__init__(description) ==
    [cls |-> "KeyWrongLastSequenceError",
     attrs |-> [description |-> description]]

\* the classes whose body defines __init__
DefinesInit ==
    {"Error", "APIError", "ConsumerSequenceMismatchError", "KeyDeletedError",
     "KeyNotFoundError", "KeyWrongLastSequenceError"}

\* the classes whose body defines __str__
DefinesStr ==
    {"Error", "APIError", "NoStreamResponseError", "TooManyStalledMsgsError",
     "FetchTimeoutError", "ConsumerSequenceMismatchError", "KeyDeletedError",
     "KeyNotFoundError", "KeyWrongLastSequenceError", "NoKeysError",
     "KeyHistoryTooLargeError"}

\* The class that supplies a method to class c: c itself when its body
\* defines the method, else the supplier of its first base.  Every class
\* with two bases defines both methods itself, so the first base decides.
RECURSIVE MethodOwner(_, _)
MethodOwner(c, defining) ==
    IF c \in defining \/ c \notin Classes THEN c
    ELSE MethodOwner(Bases[c][1], defining)

\* cls(description=text) / cls(message=text) as the calling code constructs
\* a locally detected error: text is the one free-text keyword argument of
\* the class's constructor, None when left out
new(cls, text) ==
    LET owner == MethodOwner(cls, DefinesInit) IN
    CASE owner = "Error"    -> Error__init__(cls, text)
      [] owner = "APIError" ->
            APIError__init__(cls, APIError_defaults.code, text,
                             APIError_defaults.err_code,
                             APIError_defaults.stream, APIError_defaults.seq)
      [] owner = "KeyDeletedError"  -> KeyDeletedError__init__(None, None)
      [] owner = "KeyNotFoundError" ->
            KeyNotFoundError__init__(None, None, text)
      [] owner = "KeyWrongLastSequenceError" ->
            KeyWrongLastSequenceError__init__(text)
      [] OTHER -> [cls |-> cls, attrs |-> <<>>]

---------------------------------------------------------------------------
(* Names of nats.js.api used by from_msg. *)

\* api.Header.STATUS
STATUS == "Status"

\* api.Header.DESCRIPTION
DESCRIPTION == "Description"

\* api.StatusCode.SERVICE_UNAVAILABLE, the text "503"
SERVICE_UNAVAILABLE == <<5, 0, 3>>

\* int(text) for a text of decimal digits
RECURSIVE int(_)
int(digits) ==
    IF digits = <<>> THEN 0
    ELSE 10 * int(SubSeq(digits, 1, Len(digits) - 1)) + digits[Len(digits)]

\* the KeyError a dict subscript raises for a key that is not present
KeyError(key) == [cls |-> "KeyError", attrs |-> [args |-> Some(key)]]

---------------------------------------------------------------------------
(* The classification entry points.  Each yields the outcome of the call: *)
(* the exceptions that leave it (none when it returns normally) and the   *)
(* header entries it subscripted.                                         *)

Outcome(excs, entries) == [raised |-> excs, reads |-> entries]

\* from_msg that gives the 503 branch the fields of the generic branch
from_msg_populates503(m) ==
    IF m.header = None
    THEN Outcome(<<APIError_call("APIError", <<>>)>>, {})
    ELSE LET header == m.header[1]
             code == header[STATUS]
         IN IF DESCRIPTION \notin DOMAIN header
            THEN Outcome(<<KeyError(DESCRIPTION)>>, {STATUS, DESCRIPTION})
            ELSE Outcome(<<APIError_call(
                             IF code = SERVICE_UNAVAILABLE
                             THEN "ServiceUnavailableError" ELSE "APIError",
                             [code |-> int(code),
                              description |-> header[DESCRIPTION]])>>,
                         {STATUS, DESCRIPTION})

\* from_msg that subscripts the headers before testing for their absence
from_msg_readsFirst(m) ==
    IF m.header = None
    THEN Outcome(<<APIError_call("APIError", [code |-> 0])>>, {STATUS})
    ELSE LET header == m.header[1]
             code == header[STATUS]
         IN IF code = SERVICE_UNAVAILABLE
            THEN Outcome(<<APIError_call("ServiceUnavailableError", <<>>)>>,
                         {STATUS})
            ELSE IF DESCRIPTION \notin DOMAIN header
            THEN Outcome(<<KeyError(DESCRIPTION)>>, {STATUS, DESCRIPTION})
            ELSE Outcome(<<APIError_call("APIError",
                             [code |-> int(code),
                              description |-> header[DESCRIPTION]])>>,
                         {STATUS, DESCRIPTION})

\* from_msg that does not forward the parsed status as the code
from_msg_dropsCode(m) ==
    IF m.header = None
    THEN Outcome(<<APIError_call("APIError", <<>>)>>, {})
    ELSE LET header == m.header[1]
             code == header[STATUS]
         IN IF code = SERVICE_UNAVAILABLE
            THEN Outcome(<<APIError_call("ServiceUnavailableError", <<>>)>>,
                         {STATUS})
            ELSE IF DESCRIPTION \notin DOMAIN header
            THEN Outcome(<<KeyError(DESCRIPTION)>>, {STATUS, DESCRIPTION})
            ELSE Outcome(<<APIError_call("APIError",
                             [description |-> header[DESCRIPTION]])>>,
                         {STATUS, DESCRIPTION})

\* APIError.from_msg(msg)
from_msg(m) ==
    IF m.header = None
    THEN Outcome(<<APIError_call("APIError", <<>>)>>, {})
    ELSE LET header == m.header[1]
             code == header[STATUS]
         IN IF code = SERVICE_UNAVAILABLE
            THEN Outcome(<<APIError_call("ServiceUnavailableError", <<>>)>>,
                         {STATUS})
            ELSE IF DESCRIPTION \notin DOMAIN header
            THEN Outcome(<<KeyError(DESCRIPTION)>>, {STATUS, DESCRIPTION})
            ELSE Outcome(<<APIError_call("APIError",
                             [code |-> int(code),
                              description |-> header[DESCRIPTION]])>>,
                         {STATUS, DESCRIPTION})

\* from_error with the 500 and 404 rows of the table exchanged
from_error_swapped(e) ==
    LET code == e["code"] IN
    Outcome(<<APIError_call(
                CASE code = 503 -> "ServiceUnavailableError"
                  [] code = 500 -> "NotFoundError"
                  [] code = 404 -> "ServerError"
                  [] code = 400 -> "BadRequestError"
                  [] OTHER      -> "APIError",
                e)>>, {})

\* APIError.from_error(err)
from_error(e) ==
    LET code == e["code"] IN
    Outcome(<<APIError_call(
                CASE code = 503 -> "ServiceUnavailableError"
                  [] code = 500 -> "ServerError"
                  [] code = 404 -> "NotFoundError"
                  [] code = 400 -> "BadRequestError"
                  [] OTHER      -> "APIError",
                e)>>, {})

---------------------------------------------------------------------------
(* Renderings.  An f-string shows None as the text None, an int in        *)
(* decimal and a str as it is.                                            *)

FormatInt(o) == IF o = None THEN "None" ELSE ToString(o[1])

FormatStr(o) == IF o = None THEN "None" ELSE o[1]

\* truth value of an Optional[str]: None and "" are false
Truthy(o) == o # None /\ o[1] # ""

\* Error.__str__
Error__str__(e) ==
    "nats: JetStream." \o e.cls \o " "
        \o (IF Truthy(e.attrs.description) THEN e.attrs.description[1] ELSE "")

\* APIError.__str__
APIError__str__(e) ==
    "nats: " \o e.cls \o ": code=" \o FormatInt(e.attrs.code)
        \o " err_code=" \o FormatInt(e.attrs.err_code)
        \o " description='" \o FormatStr(e.attrs.description) \o "'"

\* the gap clamped at zero
ConsumerSequenceMismatchError_gap_clamped(e) ==
    IF e.attrs.last_consumer_sequence[1] < e.attrs.consumer_sequence[1] THEN 0
    ELSE e.attrs.last_consumer_sequence[1] - e.attrs.consumer_sequence[1]

\* gap = self.last_consumer_sequence - self.consumer_sequence
ConsumerSequenceMismatchError_gap(e) ==
    e.attrs.last_consumer_sequence[1] - e.attrs.consumer_sequence[1]

\* ConsumerSequenceMismatchError.__str__
ConsumerSequenceMismatchError__str__(e) ==
    "nats: sequence mismatch for consumer at sequence "
        \o FormatInt(e.attrs.consumer_sequence)
        \o " (" \o ToString(ConsumerSequenceMismatchError_gap(e))
        \o " sequences behind), should restart consumer from stream sequence "
        \o FormatInt(e.attrs.stream_resume_sequence)

\* KeyNotFoundError.__str__
KeyNotFoundError__str__(e) ==
    "nats: key not found"
        \o (IF Truthy(e.attrs.message) THEN ": " \o e.attrs.message[1] ELSE "")

\* KeyWrongLastSequenceError.__str__
KeyWrongLastSequenceError__str__(e) ==
    "nats: " \o FormatStr(e.attrs.description)

\* str(e): the __str__ of the class that supplies it to e's class
str(e) ==
    LET owner == MethodOwner(e.cls, DefinesStr) IN
    CASE owner = "Error"    -> Error__str__(e)
      [] owner = "APIError" -> APIError__str__(e)
      [] owner = "NoStreamResponseError" -> "nats: no response from stream"
      [] owner = "TooManyStalledMsgsError" ->
            "nats: stalled with too many outstanding async published messages"
      [] owner = "FetchTimeoutError" -> "nats: fetch timeout"
      [] owner = "ConsumerSequenceMismatchError" ->
            ConsumerSequenceMismatchError__str__(e)
      [] owner = "KeyDeletedError"  -> "nats: key was deleted"
      [] owner = "KeyNotFoundError" -> KeyNotFoundError__str__(e)
      [] owner = "KeyWrongLastSequenceError" ->
            KeyWrongLastSequenceError__str__(e)
      [] owner = "NoKeysError" -> "nats: no keys found"
      [] owner = "KeyHistoryTooLargeError" ->
            "nats: history limited to a max of 64"

---------------------------------------------------------------------------
(* Inputs. *)

Digits == {0, 3, 4, 5}

\* status header texts: one to MaxStatusLen decimal digits
StatusTexts == UNION {[1..n -> Digits] : n \in 1..MaxStatusLen}

DescriptionTexts == {"", "No Messages"}

\* header sets with a status entry, with or without a description entry
Headers ==
    {STATUS :> s : s \in StatusTexts}
        \cup {(STATUS :> s) @@ (DESCRIPTION :> d) :
                  s \in StatusTexts, d \in DescriptionTexts}

\* messages: header absent, or a header set
Msgs == {[header |-> None]} \cup {[header |-> Some(h)] : h \in Headers}

Codes == {503, 500, 404, 400, 409, 0}

\* the mappings holding key k with a value of V, and the one without k
Entry(k, V) == {<<>>} \cup {k :> v : v \in V}

\* structured errors: an integer code and any subset of the other keys
ErrMappings ==
    {("code" :> c) @@ ec @@ d @@ st @@ sq :
        c \in Codes,
        ec \in Entry("err_code", {0, 10059}),
        d \in Entry("description", {"", "stream not found"}),
        st \in Entry("stream", {"", "ORDERS"}),
        sq \in Entry("seq", {0, 7})}

\* the free-text argument of a directly constructed error
Texts == {None, Some("bucket closed")}

Seqs == 0..MaxSeq

---------------------------------------------------------------------------
(* The state machine: a caller makes one call, which ends by raising; the *)
(* error in flight is rendered any number of times and then handled.      *)

Init ==
    /\ pc = "idle"
    /\ op = "none"
    /\ msg = None
    /\ err = None
    /\ raised = <<>>
    /\ reads = {}
    /\ rendered = <<>>

\* APIError.from_msg(m)
CallFromMsg(m) ==
    /\ pc = "idle"
    /\ pc' = "ended"
    /\ op' = "from_msg"
    /\ msg' = Some(m)
    /\ err' = None
    /\ raised' = from_msg(m).raised
    /\ reads' = from_msg(m).reads
    /\ rendered' = <<>>

\* APIError.from_error(e)
CallFromError(e) ==
    /\ pc = "idle"
    /\ pc' = "ended"
    /\ op' = "from_error"
    /\ msg' = None
    /\ err' = Some(e)
    /\ raised' = from_error(e).raised
    /\ reads' = from_error(e).reads
    /\ rendered' = <<>>

\* raise cls(text) by the code that detects the condition locally
Construct(cls, text) ==
    /\ pc = "idle"
    /\ pc' = "ended"
    /\ op' = "construct"
    /\ raised' = <<new(cls, text)>>
    /\ rendered' = <<>>
    /\ UNCHANGED <<msg, err, reads>>

\* raise ConsumerSequenceMismatchError(r, c, l)
ConstructSequenceMismatch(r, c, l) ==
    /\ pc = "idle"
    /\ pc' = "ended"
    /\ op' = "construct"
    /\ raised' = <<ConsumerSequenceMismatchError__init__(Some(r), Some(c), Some(l))>>
    /\ rendered' = <<>>
    /\ UNCHANGED <<msg, err, reads>>

\* str() of the error in flight; it reads the error and changes nothing
Render ==
    /\ pc = "ended"
    /\ Len(raised) = 1
    /\ raised[1].cls \in Classes
    /\ Len(rendered) < MaxRenders
    /\ rendered' = Append(rendered, str(raised[1]))
    /\ UNCHANGED <<pc, op, msg, err, raised, reads>>

\* a handler consumes the error
Handle ==
    /\ pc = "ended"
    /\ pc' = "idle"
    /\ op' = "none"
    /\ msg' = None
    /\ err' = None
    /\ raised' = <<>>
    /\ reads' = {}
    /\ rendered' = <<>>

Next ==
    \/ \E m \in Msgs : CallFromMsg(m)
    \/ \E e \in ErrMappings : CallFromError(e)
    \/ \E cls \in Classes \ {"ConsumerSequenceMismatchError"}, text \in Texts :
           Construct(cls, text)
    \/ \E r \in Seqs, c \in Seqs, l \in Seqs : ConstructSequenceMismatch(r, c, l)
    \/ Render
    \/ Handle

Spec == Init /\ [][Next]_vars

---------------------------------------------------------------------------
(* Properties. *)

\* the error in flight, and the inputs of the call that raised it
TheError == raised[1]

TheHeader == msg[1].header[1]

TheMapping == err[1]

FromMsgWithHeaders == op = "from_msg" /\ msg[1].header # None

\* the value of key k as the caller supplied it, None when it did not
Supplied(m, k) == IF k \in DOMAIN m THEN <<m[k]>> ELSE <<>>

\* an error of class cls carrying exactly these five field values
ApiValue(cls, code, err_code, description, stream, seq) ==
    [cls |-> cls,
     attrs |-> [code |-> code, err_code |-> err_code,
                description |-> description, stream |-> stream, seq |-> seq]]

\* the kind the status table names for an integer code
TableKind(code) ==
    IF code = 503 THEN "ServiceUnavailableError"
    ELSE IF code = 500 THEN "ServerError"
    ELSE IF code = 404 THEN "NotFoundError"
    ELSE IF code = 400 THEN "BadRequestError"
    ELSE "APIError"

\* C1: from_error raises exactly the kind the table names for the code
\* (503, 500, 404, 400, else the generic APIError), and the raised error's
\* code, err_code, description, stream and seq equal the supplied values.
C1_FromErrorKindAndFields ==
    op = "from_error" =>
        raised = <<ApiValue(TableKind(TheMapping["code"]),
                            <<TheMapping["code"]>>,
                            Supplied(TheMapping, "err_code"),
                            Supplied(TheMapping, "description"),
                            Supplied(TheMapping, "stream"),
                            Supplied(TheMapping, "seq"))>>

C1_Witness ==
    /\ op = "from_error"
    /\ TheMapping = [code |-> 500, err_code |-> 10059,
                     description |-> "stream not found",
                     stream |-> "ORDERS", seq |-> 7]
    /\ TheError.cls = "ServerError"
    /\ TheError.attrs.seq = <<7>>

\* C2: from_msg (headers absent, or a status entry with or without a
\* description entry) and from_error (an integer code and any subset of
\* the other keys) always end by raising exactly one error of the APIError
\* family: never a normal return, never an error outside the family.
C2_AlwaysRaisesApiError ==
    op \in {"from_msg", "from_error"} =>
        /\ Len(raised) = 1
        /\ isinstance(TheError, "APIError")

\* C3: from_msg with headers whose status equals the service-unavailable
\* code raises ServiceUnavailableError with every field unset, whatever
\* the description header holds and whether or not it is present.
C3_ServiceUnavailableFromHeaders ==
    (FromMsgWithHeaders /\ TheHeader[STATUS] = SERVICE_UNAVAILABLE) =>
        raised = <<ApiValue("ServiceUnavailableError",
                            <<>>, <<>>, <<>>, <<>>, <<>>)>>

C3_Witness ==
    /\ FromMsgWithHeaders
    /\ TheHeader[STATUS] = SERVICE_UNAVAILABLE
    /\ DESCRIPTION \in DOMAIN TheHeader
    /\ TheHeader[DESCRIPTION] = "No Messages"
    /\ TheError.cls = "ServiceUnavailableError"

\* C4: from_msg with headers whose status is not the service-unavailable
\* code raises exactly the generic APIError with code the integer parsed
\* from the status, description the description header's value, and
\* err_code, stream and seq unset.
C4_GenericFromHeaders ==
    (FromMsgWithHeaders /\ TheHeader[STATUS] # SERVICE_UNAVAILABLE) =>
        raised = <<ApiValue("APIError",
                            <<int(TheHeader[STATUS])>>, <<>>,
                            Supplied(TheHeader, DESCRIPTION), <<>>, <<>>)>>

\* C5: from_msg on a message without headers raises exactly the generic
\* APIError with every field unset and subscripts no header entry.
C5_NoHeaders ==
    (op = "from_msg" /\ msg[1].header = None) =>
        /\ raised = <<ApiValue("APIError", <<>>, <<>>, <<>>, <<>>, <<>>)>>
        /\ reads = {}

C5_Witness ==
    /\ op = "from_msg"
    /\ msg[1].header = None
    /\ Len(raised) = 1
    /\ TheError.cls = "APIError"

\* the fixed shape of an APIError rendering for a from_error input
C6_Shape(kind, m) ==
    "nats: " \o kind \o ": code=" \o ToString(m["code"])
        \o " err_code="
        \o (IF "err_code" \in DOMAIN m THEN ToString(m["err_code"]) ELSE "None")
        \o " description='"
        \o (IF "description" \in DOMAIN m THEN m["description"] ELSE "None")
        \o "'"

\* C6: every field the from_error mapping omits reads as unset (None, not
\* 0 and not "") on the raised error, and every rendering of the error is
\* "nats: <KindName>: code=<code> err_code=<err_code> description='<d>'"
\* with None printed in place of each unset field.
C6_OmittedFieldsUnset ==
    op = "from_error" =>
        /\ Len(raised) = 1
        /\ \A k \in {"err_code", "description", "stream", "seq"} \ DOMAIN TheMapping :
               TheError.attrs[k] = <<>>
        /\ \A i \in 1..Len(rendered) :
               rendered[i] = C6_Shape(TheError.cls, TheMapping)

C6_Witness ==
    /\ op = "from_error"
    /\ DOMAIN TheMapping = {"code"}
    /\ TheMapping["code"] = 409
    /\ rendered = <<"nats: APIError: code=409 err_code=None description='None'">>

NotFoundKinds ==
    {"KeyNotFoundError", "KeyDeletedError", "BucketNotFoundError",
     "ObjectNotFoundError", "ObjectDeletedError", "NotFoundError"}

\* C7: the "is a NotFoundError" check succeeds for every value of kind
\* KeyNotFoundError, KeyDeletedError, BucketNotFoundError,
\* ObjectNotFoundError, ObjectDeletedError and NotFoundError, and a
\* KeyDeletedError value passes the KeyValueError check as well.
C7_NotFoundCapability ==
    (Len(raised) = 1 /\ TheError.cls \in NotFoundKinds) =>
        /\ isinstance(TheError, "NotFoundError")
        /\ TheError.cls = "KeyDeletedError" => isinstance(TheError, "KeyValueError")

C7_Witness ==
    /\ op = "construct"
    /\ TheError.cls = "KeyDeletedError"
    /\ isinstance(TheError, "NotFoundError")
    /\ isinstance(TheError, "KeyValueError")

KeyValueKinds ==
    {"KeyDeletedError", "KeyNotFoundError", "KeyWrongLastSequenceError",
     "NoKeysError", "KeyHistoryTooLargeError"}

\* C8 as stated: every value of kind KeyDeletedError, KeyNotFoundError,
\* KeyWrongLastSequenceError, NoKeysError, KeyHistoryTooLargeError and
\* BadBucketError passes the "is a KeyValueError" check.
C8_Original ==
    (Len(raised) = 1 /\ TheError.cls \in KeyValueKinds \cup {"BadBucketError"}) =>
        isinstance(TheError, "KeyValueError")

\* C8 as amended: every value of kind KeyDeletedError, KeyNotFoundError,
\* KeyWrongLastSequenceError, NoKeysError and KeyHistoryTooLargeError
\* passes the "is a KeyValueError" check; a BadBucketError value is an
\* APIError and does not pass it.
C8_KeyValueCapability ==
    Len(raised) = 1 =>
        /\ TheError.cls \in KeyValueKinds => isinstance(TheError, "KeyValueError")
        /\ TheError.cls = "BadBucketError" =>
               /\ ~isinstance(TheError, "KeyValueError")
               /\ isinstance(TheError, "APIError")

C8_Witness ==
    /\ op = "construct"
    /\ TheError.cls = "NoKeysError"
    /\ isinstance(TheError, "KeyValueError")

ClientLocalKinds ==
    {"NoStreamResponseError", "TooManyStalledMsgsError", "FetchTimeoutError",
     "ConsumerSequenceMismatchError"}

\* the error has a code attribute and it is set
HasCode(e) == "code" \in DOMAIN e.attrs /\ e.attrs.code # <<>>

\* C9 as stated: every error of this module raised by from_msg from a
\* message that has a status header, and every error raised by from_error,
\* carries a set code; client-local errors never carry one.
C9_Original ==
    /\ (FromMsgWithHeaders /\ Len(raised) = 1 /\ isinstance(TheError, "Error"))
           => HasCode(TheError)
    /\ (op = "from_error" /\ Len(raised) = 1) => HasCode(TheError)
    /\ (op = "construct" /\ TheError.cls \in ClientLocalKinds)
           => ~HasCode(TheError)

\* C9 as amended: an error of this module raised by from_msg carries a set
\* code, the integer parsed from the status, exactly when the status is
\* not the service-unavailable code; for that code it is a
\* ServiceUnavailableError with code unset.  Every error raised by
\* from_error carries the supplied code; client-local errors never carry
\* one.
C9_CodeOrigin ==
    /\ (FromMsgWithHeaders /\ Len(raised) = 1 /\ isinstance(TheError, "Error")) =>
           IF TheHeader[STATUS] = SERVICE_UNAVAILABLE
           THEN TheError.cls = "ServiceUnavailableError" /\ ~HasCode(TheError)
           ELSE TheError.attrs.code = <<int(TheHeader[STATUS])>>
    /\ op = "from_error" =>
           Len(raised) = 1 /\ TheError.attrs.code = <<TheMapping["code"]>>
    /\ (op = "construct" /\ TheError.cls \in ClientLocalKinds)
           => ~HasCode(TheError)

C9_Witness ==
    /\ FromMsgWithHeaders
    /\ DOMAIN TheHeader = {STATUS}
    /\ TheHeader[STATUS] = SERVICE_UNAVAILABLE
    /\ TheError.cls = "ServiceUnavailableError"
    /\ TheError.attrs.code = <<>>

IsSequenceMismatch ==
    op = "construct" /\ TheError.cls = "ConsumerSequenceMismatchError"

\* C10: a ConsumerSequenceMismatchError built from integers (r, c, l)
\* renders as "nats: sequence mismatch for consumer at sequence <c> (<l - c>
\* sequences behind), should restart consumer from stream sequence <r>" with
\* the plain difference l - c; (10, 5, 8) renders a gap of 3; rendering the
\* same value twice gives the same text.
C10_SequenceMismatchRendering ==
    IsSequenceMismatch =>
        LET r == TheError.attrs.stream_resume_sequence[1]
            c == TheError.attrs.consumer_sequence[1]
            l == TheError.attrs.last_consumer_sequence[1]
        IN /\ \A i \in 1..Len(rendered) :
                  rendered[i] =
                      "nats: sequence mismatch for consumer at sequence "
                          \o ToString(c) \o " (" \o ToString(l - c)
                          \o " sequences behind), should restart consumer from stream sequence "
                          \o ToString(r)
           /\ (r = 10 /\ c = 5 /\ l = 8) =>
                  \A i \in 1..Len(rendered) :
                      rendered[i] = "nats: sequence mismatch for consumer at sequence 5 (3 sequences behind), should restart consumer from stream sequence 10"
           /\ \A i, j \in 1..Len(rendered) : rendered[i] = rendered[j]

C10_Witness ==
    /\ IsSequenceMismatch
    /\ TheError.attrs.consumer_sequence = <<5>>
    /\ TheError.attrs.last_consumer_sequence = <<2>>
    /\ Len(rendered) = 2
    /\ rendered[2] = "nats: sequence mismatch for consumer at sequence 5 (-3 sequences behind), should restart consumer from stream sequence 10"

===========================================================================
